---- MODULE Spec2Model ----
(***************************************************************************)
(* Falling 3D objects: the instance pool builder (initializeScene) and the *)
(* per-frame updater (animate) of website/main.js, with the configuration  *)
(* of website/config.js.                                                   *)
(*                                                                         *)
(* Numbers.  JavaScript numbers that are not integers are kept in fixed    *)
(* point: a length, an angle, a scale or a speed v is the integer          *)
(* v * Scale.  Math.random() returns a value r / RandDen with              *)
(* r \in 0 .. RandDen-1, so it lies in [0, 1) as in the language.  The     *)
(* generator is seeded by the environment: the seed is the input of a run, *)
(* and each call returns the current value and advances the generator.     *)
(***************************************************************************)
EXTENDS Integers, Sequences, FiniteSets, TLC

\* ------------------------------------------------------------------ bounds
\* fixed-point steps per unit
Scale == 10000
\* Math.random() returns r / RandDen, r \in 0 .. RandDen-1
RandDen == 8
\* the seeds of the generator that a run may start from: 0 .. MaxSeed
MaxSeed == 3
\* at most MaxModels models are loaded
MaxModels == 5
\* TARGET_DENSITY ranges over 0 .. MaxDensity
MaxDensity == 4
\* frames executed in a run
MaxFrames == 14
\* a directory listing holds at most MaxAnchors links
MaxAnchors == 2
\* a model file holds at most MaxGeometries meshes
MaxGeometries == 2
\* a mesh has 1 .. MaxVertices vertices
MaxVertices == 4
\* frames executed in a run that is followed from the discovery on
MaxLoadFrames == 2
\* ticks of the frame-rate limiter in a run
MaxTicks == 4
\* milliseconds between two ticks: 1 .. MaxTickGap
MaxTickGap == 5
\* the partition alone is computed for up to MaxCount objects ...
MaxCount == 50
\* ... over up to MaxPartitionModels loaded models
MaxPartitionModels == 8

\* ---------------------------------------------------------- configuration
\* OBJECT_CONFIG and ANIMATION_CONFIG as shipped.  The spreads, the offset and
\* the density are in units; the other entries are in fixed point.
ShippedConfig ==
    [ TARGET_DENSITY      |-> 4,
      X_SPREAD            |-> 200,
      Y_SPREAD            |-> 600,
      Z_SPREAD            |-> 100,
      Y_OFFSET            |-> 0,
      MIN_SCALE           |-> (2 * Scale) \div 100,
      MAX_SCALE           |-> (1 * Scale) \div 10,
      FALL_SPEED          |-> (8 * Scale) \div 10,
      MAX_ROTATION_SPEED  |-> (5 * Scale) \div 10,
      ROTATION_MULTIPLIER |-> (2 * Scale) \div 100 ]

\* The configuration is tunable.  A run of the scene is started with the
\* shipped values in a narrower space (X_SPREAD = 20, which makes 5 objects),
\* or with a small vertical spread and another density, offset and fall speed.
Configs ==
    { [ShippedConfig EXCEPT !.X_SPREAD = 20] } \cup
    { [ShippedConfig EXCEPT !.TARGET_DENSITY = d, !.Y_SPREAD = 50,
                            !.Y_OFFSET = o, !.FALL_SPEED = f] :
        d \in 0 .. MaxDensity,
        o \in {0, 5},
        f \in {(8 * Scale) \div 10, 12 * Scale} }

\* The partition of the objects over the models is computed for the shipped
\* values and for a space of a million cubic units, where the object count
\* is the density: 0 .. MaxCount.
PartitionConfigs ==
    {ShippedConfig} \cup
    { [ShippedConfig EXCEPT !.TARGET_DENSITY = d, !.X_SPREAD = 100,
                            !.Y_SPREAD = 100, !.Z_SPREAD = 100] :
        d \in 0 .. MaxCount }

\* The object count is computed for these spreads and densities; they include
\* the shipped values, a tie (50 x 50 x 50 at density 4 is 0.5) and values
\* that round down and up.
CountConfigs ==
    { [ShippedConfig EXCEPT !.TARGET_DENSITY = d, !.X_SPREAD = x,
                            !.Y_SPREAD = y, !.Z_SPREAD = z] :
        d \in 0 .. MaxDensity,
        x \in {20, 50, 100, 200},
        y \in {50, 100, 600},
        z \in {50, 100} }

\* OBJECT_COLORS, the palette
OBJECT_COLORS ==
    << 16232184, 10030748, 15688177, 16302073, 16437243,
       11765995, 4396671, 9128672, 12820975, 13809907,
       8426481, 991876, 3955177, 10004468, 11714038,
       7527927, 552841, 3132659, 9430008, 11266810 >>

\* Math.PI in fixed point
PI == (31416 * Scale) \div 10000

\* ANIMATION_CONFIG.TARGET_FPS
TARGET_FPS == 120

\* MODEL_CONFIG.  A path is a directory, a file stem and an extension; the
\* string 'models/dd.glb' is [dir |-> "models/", stem |-> "dd", ext |-> ".glb"].
DIRECTORY == "models/"

FALLBACK_MODELS ==
    << [dir |-> "models/", stem |-> "dd", ext |-> ".glb"],
       [dir |-> "models/", stem |-> "Gemini_Generated_Image_1ngjh61ngjh61ngj", ext |-> ".glb"],
       [dir |-> "models/", stem |-> "Gemini_Generated_Image_99jcve99jcve99jc", ext |-> ".glb"],
       [dir |-> "models/", stem |-> "Gemini_Generated_Image_cwr7vxcwr7vxcwr7", ext |-> ".glb"],
       [dir |-> "models/", stem |-> "Gemini_Generated_Image_nkujwpnkujwpnkuj", ext |-> ".glb"],
       [dir |-> "models/", stem |-> "Gemini_Generated_Image_tbskldtbskldtbsk", ext |-> ".glb"],
       [dir |-> "models/", stem |-> "Gemini_Generated_Image_w7lk6xw7lk6xw7lk", ext |-> ".glb"],
       [dir |-> "models/", stem |-> "Gemini_Generated_Image_xvlftixvlftixvlf", ext |-> ".glb"] >>

VARIABLES
    config,          \* the configuration the modules were loaded with
    OBJECT_COUNT,    \* const OBJECT_COUNT = calculateObjectCount()
    loadedModels,    \* what loadAllModels() resolved with
    pc,              \* where initializeScene / the animation loop stands
    random,          \* the state of Math.random()'s generator
    assigned,        \* objectsForThisModel of each loaded model, in order
    totalObjectsCreated,
    instancedMeshes, \* the batches
    allObjects,      \* the object states
    created,         \* the objects, batch counts and colors as built
    frames,          \* number of executed frames
    lastFrame,       \* what the last executed frame did to each object
    resets,          \* number of times each object was recycled so far
    sinceReset,      \* frames executed since each object was created or recycled
    rendered,        \* the instance buffers as the last render call saw them
    listing,         \* what fetch(MODEL_CONFIG.DIRECTORY) comes back with
    modelPaths,      \* what discoverModelPaths() returned
    loads,           \* loadPromises: each load pending or resolved
    settleOrder,     \* the loads in the order in which they resolved
    gltf,            \* the parsed file handed to a load callback
    resolved,        \* what that callback resolved its promise with
    targetFPS,       \* the limiter's targetFPS
    lastFrameTime,   \* the limiter's lastFrameTime
    currentTime,     \* the timestamp of the last tick
    requested,       \* requestAnimationFrame calls made by the limiter
    executedAt       \* the timestamps of the ticks that executed the frame

\* the model loader's state
loaderVars == << listing, modelPaths, loads, settleOrder, gltf, resolved >>

\* the frame-rate limiter's state
limiterVars == << targetFPS, lastFrameTime, currentTime, requested, executedAt >>

vars == << config, OBJECT_COUNT, loadedModels, pc, random, assigned,
           totalObjectsCreated, instancedMeshes, allObjects, created,
           frames, lastFrame, resets, sinceReset, rendered, loaderVars,
           limiterVars >>

\* ------------------------------------------------------------ arithmetic
Min(a, b) == IF a <= b THEN a ELSE b

\* Math.ceil(a / b) for a >= 0, b > 0
Ceil(a, b) == (a + b - 1) \div b

\* fixed-point product
Mul(a, b) == (a * b) \div Scale

\* ----------------------------------------------------------- Math.random
\* the value after the one the generator holds
NextRandom(s) == (5 * s + 3) % RandDen

RECURSIVE RandomAt(_, _)
\* the value of the k-th call from now (k = 0: the next call)
RandomAt(s, k) == IF k = 0 THEN s ELSE RandomAt(NextRandom(s), k - 1)

\* (Math.random() - 0.5) * v, v in fixed point, r the value drawn
Centered(r, v) == ((2 * r - RandDen) * v) \div (2 * RandDen)

\* Math.random() * v
Scaled(r, v) == (r * v) \div RandDen

\* --------------------------------------------------- calculateObjectCount
\* mutant: Math.floor in place of Math.round
calculateObjectCountFloor(c) ==
    (c.X_SPREAD * c.Y_SPREAD * c.Z_SPREAD * c.TARGET_DENSITY) \div 1000000

\* Math.round(volume * TARGET_DENSITY / 1000000)
calculateObjectCount(c) ==
    LET volume == c.X_SPREAD * c.Y_SPREAD * c.Z_SPREAD
    IN  (2 * volume * c.TARGET_DENSITY + 1000000) \div 2000000

\* ------------------------------------------------- initializeScene: batches
\* mutant: Math.floor in place of Math.ceil
objectsPerModelFloor(N, M) == N \div M

\* mutant: Math.round in place of Math.ceil
objectsPerModelRound(N, M) == (2 * N + M) \div (2 * M)

\* const objectsPerModel = Math.ceil(OBJECT_COUNT / loadedModels.length)
objectsPerModel(N, M) == Ceil(N, M)

\* mutant: the budget left is not taken into account
objectsForThisModelUncapped(perModel, N, total) == Min(perModel, N)

\* Math.min(objectsPerModel, OBJECT_COUNT - totalObjectsCreated)
objectsForThisModel(perModel, N, total) == Min(perModel, N - total)

\* mutant: only a negative count is skipped
SkipNegative(n) == n < 0

\* mutant: a model assigned one object is skipped too
SkipUpToOne(n) == n <= 1

\* if (objectsForThisModel <= 0) return;
SkipModel(n) == n <= 0

\* new THREE.InstancedMesh(model.geometry, baseMaterial, n) with its color
\* array: n zeroed matrices and 3n zeroed color components
NewMeshData(model, n) ==
    [ geometry       |-> model.geometry,
      count          |-> n,
      objects        |-> << >>,
      colorArray     |-> [j \in 1 .. 3 * n |-> 0],
      instanceMatrix |-> [j \in 1 .. n |-> << >>],
      needsUpdate    |-> FALSE ]

RECURSIVE CreateInstancedMeshes(_, _, _, _)
\* loadedModels.forEach((model, modelIndex) => ...), from the k-th model on;
\* st = [meshes, total, assigned]
CreateInstancedMeshes(models, N, k, st) ==
    IF k > Len(models) THEN st
    ELSE LET n == objectsForThisModel(objectsPerModel(N, Len(models)), N, st.total)
         IN  IF SkipModel(n)
             THEN CreateInstancedMeshes(models, N, k + 1,
                    [st EXCEPT !.assigned = Append(@, n)])
             ELSE CreateInstancedMeshes(models, N, k + 1,
                    [ meshes   |-> Append(st.meshes, NewMeshData(models[k], n)),
                      total    |-> st.total + n,
                      assigned |-> Append(st.assigned, n) ])

\* mutant: every object of a batch is given the first slot
NewObjectStateAtSlotZero(c, meshIndex, i, s) ==
    [ meshIndex      |-> meshIndex,
      instanceIndex  |-> 0,
      position       |-> [ x |-> Centered(RandomAt(s, 0), c.X_SPREAD * Scale),
                           y |-> c.Y_OFFSET * Scale
                                   + Centered(RandomAt(s, 1), c.Y_SPREAD * Scale),
                           z |-> Centered(RandomAt(s, 2), c.Z_SPREAD * Scale) ],
      rotation       |-> [ x |-> Scaled(RandomAt(s, 3), PI),
                           y |-> Scaled(RandomAt(s, 4), PI),
                           z |-> Scaled(RandomAt(s, 5), PI) ],
      scale          |-> Scaled(RandomAt(s, 6), c.MAX_SCALE - c.MIN_SCALE)
                           + c.MIN_SCALE,
      rotationSpeedX |-> Centered(RandomAt(s, 7), c.MAX_ROTATION_SPEED),
      rotationSpeedZ |-> Centered(RandomAt(s, 8), c.MAX_ROTATION_SPEED) ]

\* ------------------------------------------------- initializeScene: objects
\* the objectState literal; s is the generator before the nine draws
NewObjectState(c, meshIndex, i, s) ==
    [ meshIndex      |-> meshIndex,
      instanceIndex  |-> i,
      position       |-> [ x |-> Centered(RandomAt(s, 0), c.X_SPREAD * Scale),
                           y |-> c.Y_OFFSET * Scale
                                   + Centered(RandomAt(s, 1), c.Y_SPREAD * Scale),
                           z |-> Centered(RandomAt(s, 2), c.Z_SPREAD * Scale) ],
      rotation       |-> [ x |-> Scaled(RandomAt(s, 3), PI),
                           y |-> Scaled(RandomAt(s, 4), PI),
                           z |-> Scaled(RandomAt(s, 5), PI) ],
      scale          |-> Scaled(RandomAt(s, 6), c.MAX_SCALE - c.MIN_SCALE)
                           + c.MIN_SCALE,
      rotationSpeedX |-> Centered(RandomAt(s, 7), c.MAX_ROTATION_SPEED),
      rotationSpeedZ |-> Centered(RandomAt(s, 8), c.MAX_ROTATION_SPEED) ]

\* OBJECT_COLORS[Math.floor(Math.random() * OBJECT_COLORS.length)]
randomColor(r) == OBJECT_COLORS[((r * Len(OBJECT_COLORS)) \div RandDen) + 1]

\* new THREE.Color(hex): the red, green and blue bytes
Color(hex) ==
    [ r |-> hex \div 65536, g |-> (hex \div 256) % 256, b |-> hex % 256 ]

\* dummy.position.copy / rotation.copy / scale.set / updateMatrix: the matrix
\* composed from a position, a rotation and a uniform scale
Matrix(obj) ==
    [ position |-> obj.position, rotation |-> obj.rotation, scale |-> obj.scale ]

\* one turn of the for loop over i: the object is created, its color and its
\* matrix are written at slot i; st = [meshes, objects, random]
InitObject(c, st, meshIndex, i) ==
    LET obj   == NewObjectState(c, meshIndex, i, st.random)
        color == Color(randomColor(RandomAt(st.random, 9)))
        m     == meshIndex + 1
    IN  [ meshes  |-> [st.meshes EXCEPT
                         ![m].objects = Append(@, Len(st.objects) + 1),
                         ![m].colorArray =
                             [@ EXCEPT ![3 * i + 1] = color.r,
                                       ![3 * i + 2] = color.g,
                                       ![3 * i + 3] = color.b],
                         ![m].instanceMatrix = [@ EXCEPT ![i + 1] = Matrix(obj)]],
          objects |-> Append(st.objects, obj),
          random  |-> RandomAt(st.random, 10) ]

RECURSIVE InitMesh(_, _, _, _)
\* for (let i = 0; i < meshData.count; i++), then needsUpdate = true
InitMesh(c, st, meshIndex, i) ==
    IF i >= st.meshes[meshIndex + 1].count
    THEN [st EXCEPT !.meshes[meshIndex + 1].needsUpdate = TRUE]
    ELSE InitMesh(c, InitObject(c, st, meshIndex, i), meshIndex, i + 1)

RECURSIVE InitializeObjects(_, _, _)
\* instancedMeshes.forEach((meshData, meshIndex) => ...), from meshIndex on
InitializeObjects(c, st, meshIndex) ==
    IF meshIndex >= Len(st.meshes) THEN st
    ELSE InitializeObjects(c, InitMesh(c, st, meshIndex, 0), meshIndex + 1)

\* ------------------------------------------------------------------ animate
\* const recycleThreshold = Y_OFFSET - Y_SPREAD / 2 - 10
recycleThreshold(c) == c.Y_OFFSET * Scale - (c.Y_SPREAD * Scale) \div 2 - 10 * Scale

\* mutant: an object is recycled only 10 units further down
OffScreenFurtherDown(y, c) == y < recycleThreshold(c) - 10 * Scale

\* mutant: no object is ever recycled
OffScreenNever(y, c) == FALSE

\* mutant: the test with <= in place of <
OffScreenOrAt(y, c) == y <= recycleThreshold(c)

\* if (obj.position.y < recycleThreshold)
OffScreen(y, c) == y < recycleThreshold(c)

\* mutant: rotation.z advanced by the speed of the x axis
FallOneSpeed(obj, c) ==
    [obj EXCEPT !.position.y = @ - c.FALL_SPEED,
                !.rotation.x = @ + Mul(obj.rotationSpeedX, c.ROTATION_MULTIPLIER),
                !.rotation.z = @ + Mul(obj.rotationSpeedX, c.ROTATION_MULTIPLIER)]

\* obj.position.y -= FALL_SPEED and the two rotation updates
Fall(obj, c) ==
    [obj EXCEPT !.position.y = @ - c.FALL_SPEED,
                !.rotation.x = @ + Mul(obj.rotationSpeedX, c.ROTATION_MULTIPLIER),
                !.rotation.z = @ + Mul(obj.rotationSpeedZ, c.ROTATION_MULTIPLIER)]

\* mutant: the reset takes the object to the bottom of the range
RecycleToBottom(obj, c, s) ==
    [obj EXCEPT !.position.y = c.Y_OFFSET * Scale - (c.Y_SPREAD * Scale) \div 2,
                !.position.x = Centered(RandomAt(s, 0), c.X_SPREAD * Scale),
                !.position.z = Centered(RandomAt(s, 1), c.Z_SPREAD * Scale)]

\* mutant: the reset lifts the object by the height of the range instead of
\* placing it at the top
RecycleWrapping(obj, c, s) ==
    [obj EXCEPT !.position.y = @ + (c.Y_SPREAD + 10) * Scale,
                !.position.x = Centered(RandomAt(s, 0), c.X_SPREAD * Scale),
                !.position.z = Centered(RandomAt(s, 1), c.Z_SPREAD * Scale)]

\* mutant: the reset draws a new scale as well
RecycleWithNewScale(obj, c, s) ==
    [obj EXCEPT !.position.y = c.Y_OFFSET * Scale + (c.Y_SPREAD * Scale) \div 2,
                !.position.x = Centered(RandomAt(s, 0), c.X_SPREAD * Scale),
                !.position.z = Centered(RandomAt(s, 1), c.Z_SPREAD * Scale),
                !.scale = Scaled(RandomAt(s, 1), c.MAX_SCALE - c.MIN_SCALE)
                            + c.MIN_SCALE]

\* the body of the if: back to the top, x and z drawn again (s: the generator)
Recycle(obj, c, s) ==
    [obj EXCEPT !.position.y = c.Y_OFFSET * Scale + (c.Y_SPREAD * Scale) \div 2,
                !.position.x = Centered(RandomAt(s, 0), c.X_SPREAD * Scale),
                !.position.z = Centered(RandomAt(s, 1), c.Z_SPREAD * Scale)]

\* mutant: the matrix is written to the first batch, whatever the meshIndex
setMatrixAtFirstMesh(meshes, obj) ==
    [meshes EXCEPT ![1].instanceMatrix[obj.instanceIndex + 1] = Matrix(obj)]

\* meshData.mesh.setMatrixAt(obj.instanceIndex, dummy.matrix) on
\* instancedMeshes[obj.meshIndex]
setMatrixAt(meshes, obj) ==
    [meshes EXCEPT ![obj.meshIndex + 1].instanceMatrix[obj.instanceIndex + 1] =
                       Matrix(obj)]

\* the callback of allObjects.forEach on the k-th object;
\* st = [objects, meshes, random, log]; log records, for this frame, the y each
\* object fell to, how often it was reset and updated, and the writes per slot
UpdateObject(c, st, k) ==
    LET fallen  == Fall(st.objects[k], c)
        off     == OffScreen(fallen.position.y, c)
        obj     == IF off THEN Recycle(fallen, c, st.random) ELSE fallen
    IN  [ objects |-> [st.objects EXCEPT ![k] = obj],
          meshes  |-> setMatrixAt(st.meshes, obj),
          random  |-> IF off THEN RandomAt(st.random, 2) ELSE st.random,
          log     |-> [st.log EXCEPT
                         !.fell[k]    = fallen.position.y,
                         !.reset[k]   = @ + (IF off THEN 1 ELSE 0),
                         !.updated[k] = @ + 1,
                         !.written[obj.meshIndex + 1][obj.instanceIndex + 1] = @ + 1] ]

\* allObjects.forEach(obj => ...): the callback on each object, in order
UpdateAllObjects(c, st) ==
    LET after[k \in 0 .. Len(st.objects)] ==
          IF k = 0 THEN st ELSE UpdateObject(c, after[k - 1], k)
    IN  after[Len(st.objects)]

\* instancedMeshes.forEach(meshData => instanceMatrix.needsUpdate = true)
UpdateAllMeshes(meshes) ==
    [m \in 1 .. Len(meshes) |-> [meshes[m] EXCEPT !.needsUpdate = TRUE]]

\* the log of a frame before any object is updated
EmptyLog(objects, meshes) ==
    [ fell    |-> [k \in 1 .. Len(objects) |-> 0],
      reset   |-> [k \in 1 .. Len(objects) |-> 0],
      updated |-> [k \in 1 .. Len(objects) |-> 0],
      written |-> [m \in 1 .. Len(meshes) |-> [j \in 1 .. meshes[m].count |-> 0]] ]

\* ----------------------------------------------------- paths and promises
\* the k-th file of a models directory and the link to it in the listing
Href(k) == [stem |-> ToString(k), ext |-> ".glb"]

\* MODEL_CONFIG.DIRECTORY + link.getAttribute('href')
PathOf(href) == [dir |-> DIRECTORY, stem |-> href.stem, ext |-> href.ext]

\* the geometry that the meshes of a model file make, named after the file
GeometryOf(path) == path.stem

\* a load promise: pending, resolved with null (and which callback did it),
\* or resolved with a model
Pending == [kind |-> "pending"]
Null(why) == [kind |-> "null", why |-> why]
Resolved(path) == [kind |-> "model", path |-> path, geometry |-> GeometryOf(path)]

\* no file has been parsed
NoScene == [children |-> << >>, mergeThrows |-> FALSE]

\* resolve({ path, geometry: modelGeometry })
Model(path) == [path |-> path, geometry |-> GeometryOf(path)]

\* ------------------------------------------------------ discoverModelPaths
\* doc.querySelectorAll('a[href$=".glb"]'): the anchors whose href ends in
\* ".glb", in document order
GlbLinks(anchors) == SelectSeq(anchors, LAMBDA a : a.ext = ".glb")

\* mutant: a response that is not OK yields no path at all
discoverModelPathsNotOkEmpty(l) ==
    IF l.kind = "ok"
    THEN [ threw |-> FALSE,
           paths |-> [k \in 1 .. Len(GlbLinks(l.anchors)) |->
                        PathOf(GlbLinks(l.anchors)[k])] ]
    ELSE IF l.kind = "not ok"
         THEN [threw |-> FALSE, paths |-> << >>]
         ELSE [threw |-> FALSE, paths |-> FALLBACK_MODELS]

\* mutant: an index page without a model link falls back too
discoverModelPathsEmptyFallsBack(l) ==
    IF l.kind = "ok" /\ Len(GlbLinks(l.anchors)) > 0
    THEN [ threw |-> FALSE,
           paths |-> [k \in 1 .. Len(GlbLinks(l.anchors)) |->
                        PathOf(GlbLinks(l.anchors)[k])] ]
    ELSE [threw |-> FALSE, paths |-> FALLBACK_MODELS]

\* discoverModelPaths() on the answer l of the server: whether it threw and
\* the paths it returned.  fetch, response.text() and parseFromString are
\* inside the try, whose catch falls through to the fallback list, as does a
\* response that is not OK.
discoverModelPaths(l) ==
    IF l.kind \in {"fetch throws", "text throws", "parse throws"}
    THEN [threw |-> FALSE, paths |-> FALLBACK_MODELS]
    ELSE IF l.kind = "ok"
         THEN LET links == GlbLinks(l.anchors)
              IN  [ threw |-> FALSE,
                    paths |-> [k \in 1 .. Len(links) |-> PathOf(links[k])] ]
         ELSE [threw |-> FALSE, paths |-> FALLBACK_MODELS]

\* ------------------------------------------------------------- geometries
\* The geometry of the j-th child of a parsed file: flat attribute arrays,
\* three numbers per vertex for position and normal, two for uv.  The numbers
\* tell the child and the place in its array they come from.
MeshGeometry(j, vertices, hasNormal, hasUv) ==
    [ position        |-> [i \in 1 .. 3 * vertices |-> 100 * j + i],
      hasNormal       |-> hasNormal,
      normal          |-> IF hasNormal
                          THEN [i \in 1 .. 3 * vertices |-> -(100 * j + i)]
                          ELSE << >>,
      hasUv           |-> hasUv,
      uv              |-> IF hasUv
                          THEN [i \in 1 .. 2 * vertices |-> 100 * j + 50 + i]
                          ELSE << >>,
      computedNormals |-> FALSE ]

\* new THREE.BufferGeometry()
EmptyGeometry ==
    [ position |-> << >>, hasNormal |-> FALSE, normal |-> << >>,
      hasUv |-> FALSE, uv |-> << >>, computedNormals |-> FALSE ]

\* geometry.computeVertexNormals(): a normal attribute with one normal per
\* vertex, computed from the positions (kept as zeros)
computeVertexNormals(g) ==
    [g EXCEPT !.hasNormal = TRUE,
              !.normal = [i \in 1 .. Len(g.position) |-> 0],
              !.computedNormals = TRUE]

\* mutant: each input's arrays are put in front of what was accumulated
AccumulatePrepending(geometries) ==
    LET acc[k \in 0 .. Len(geometries)] ==
          IF k = 0
          THEN [positions |-> << >>, normals |-> << >>, uvs |-> << >>]
          ELSE LET geom == geometries[k]
                   prev == acc[k - 1]
               IN  [ positions |-> geom.position \o prev.positions,
                     normals   |-> IF geom.hasNormal
                                   THEN geom.normal \o prev.normals
                                   ELSE prev.normals,
                     uvs       |-> IF geom.hasUv
                                   THEN geom.uv \o prev.uvs
                                   ELSE prev.uvs ]
    IN  acc[Len(geometries)]

\* geometries.forEach(geom => ...): the three arrays after the first k inputs
Accumulate(geometries) ==
    LET acc[k \in 0 .. Len(geometries)] ==
          IF k = 0
          THEN [positions |-> << >>, normals |-> << >>, uvs |-> << >>]
          ELSE LET geom == geometries[k]
                   prev == acc[k - 1]
               IN  [ positions |-> prev.positions \o geom.position,
                     normals   |-> IF geom.hasNormal
                                   THEN prev.normals \o geom.normal
                                   ELSE prev.normals,
                     uvs       |-> IF geom.hasUv
                                   THEN prev.uvs \o geom.uv
                                   ELSE prev.uvs ]
    IN  acc[Len(geometries)]

\* mergeGeometries(geometries): whether it threw, and the merged geometry
mergeGeometries(geometries, throws) ==
    LET arrays      == Accumulate(geometries)
        positioned  == [EmptyGeometry EXCEPT !.position = arrays.positions]
        withNormals == IF Len(arrays.normals) > 0
                       THEN [positioned EXCEPT !.hasNormal = TRUE,
                                               !.normal = arrays.normals]
                       ELSE computeVertexNormals(positioned)
        withUvs     == IF Len(arrays.uvs) > 0
                       THEN [withNormals EXCEPT !.hasUv = TRUE, !.uv = arrays.uvs]
                       ELSE withNormals
    IN  [threw |-> throws, geometry |-> withUvs]

\* gltf.scene.traverse(child => ...): the geometries of the mesh children
MeshGeometries(scene) ==
    LET meshes == SelectSeq(scene.children, LAMBDA child : child.isMesh)
    IN  [k \in 1 .. Len(meshes) |-> meshes[k].geometry]

\* mutant: the merge is not in a try, a merge that throws leaves the promise
\* pending
onLoadMergeUncaught(path, scene) ==
    LET geometries == MeshGeometries(scene)
    IN  IF Len(geometries) = 0
        THEN Null("no mesh")
        ELSE IF Len(geometries) = 1
             THEN [ kind     |-> "model",
                    path     |-> path,
                    geometry |-> IF geometries[1].hasNormal
                                 THEN geometries[1]
                                 ELSE computeVertexNormals(geometries[1]) ]
             ELSE LET merged == mergeGeometries(geometries, scene.mergeThrows)
                  IN  IF merged.threw
                      THEN Pending
                      ELSE [ kind     |-> "model",
                             path     |-> path,
                             geometry |-> merged.geometry ]

\* the load callback on the parsed file: what the promise resolves with
onLoad(path, scene) ==
    LET geometries == MeshGeometries(scene)
    IN  IF Len(geometries) = 0
        THEN Null("no mesh")
        ELSE IF Len(geometries) = 1
             THEN [ kind     |-> "model",
                    path     |-> path,
                    geometry |-> IF geometries[1].hasNormal
                                 THEN geometries[1]
                                 ELSE computeVertexNormals(geometries[1]) ]
             ELSE LET merged == mergeGeometries(geometries, scene.mergeThrows)
                  IN  [ kind     |-> "model",
                        path     |-> path,
                        geometry |-> IF merged.threw
                                     THEN geometries[1]
                                     ELSE merged.geometry ]

\* ------------------------------------------------------------ loadAllModels
\* mutant: the join resolves as soon as one load has
PromiseAnyResolved(promises) ==
    promises = << >> \/ \E i \in 1 .. Len(promises) : promises[i] # Pending

\* mutant: the join gives up on the last load that is still pending
PromiseAllButOneResolved(promises) ==
    Cardinality({i \in 1 .. Len(promises) : promises[i] = Pending}) <= 1

\* await Promise.all(loadPromises): every promise has resolved
PromiseAllResolved(promises) ==
    \A i \in 1 .. Len(promises) : promises[i] # Pending

\* mutant: the results come in the order in which the promises resolved
PromiseAllInSettleOrder(promises, order) ==
    [k \in 1 .. Len(order) |-> promises[order[k]]]

\* Promise.all(loadPromises): the results, in the order of the promises
\* whatever the order in which they resolved
PromiseAll(promises, order) == promises

\* model && model.geometry ("" stands for no geometry)
Keep(result) == result.kind = "model" /\ result.geometry # ""

\* mutant: only the first model that loaded is kept
FilterFirstOnly(results) ==
    LET kept == SelectSeq(results, Keep)
    IN  [k \in 1 .. Min(1, Len(kept)) |->
           [path |-> kept[k].path, geometry |-> kept[k].geometry]]

\* (await Promise.all(loadPromises)).filter(model => model && model.geometry)
Filter(results) ==
    LET kept == SelectSeq(results, Keep)
    IN  [k \in 1 .. Len(kept) |->
           [path |-> kept[k].path, geometry |-> kept[k].geometry]]

\* ------------------------------------------------------------ state machine
\* the seeds a run may start from
Seeds == 0 .. Min(MaxSeed, RandDen - 1)

\* the first m discovered models, loaded
Loaded(m) == [k \in 1 .. m |-> Model(PathOf(Href(k)))]

\* loadAllModels() has resolved with one of `models`; nothing is built
InitWith(configs, models, seeds) ==
    /\ config \in configs
    /\ OBJECT_COUNT = calculateObjectCount(config)
    /\ loadedModels \in models
    /\ random \in seeds
    /\ pc = "loaded"
    /\ assigned = << >>
    /\ totalObjectsCreated = 0
    /\ instancedMeshes = << >>
    /\ allObjects = << >>
    /\ created = [objects |-> << >>, counts |-> << >>, colors |-> << >>]
    /\ frames = 0
    /\ lastFrame = EmptyLog(<< >>, << >>)
    /\ resets = << >>
    /\ sinceReset = << >>
    /\ rendered = << >>
    /\ listing = [ kind    |-> "ok",
                   anchors |-> [k \in 1 .. Len(loadedModels) |->
                                  [ stem |-> loadedModels[k].path.stem,
                                    ext  |-> loadedModels[k].path.ext ]] ]
    /\ modelPaths = [k \in 1 .. Len(loadedModels) |-> loadedModels[k].path]
    /\ loads = [k \in 1 .. Len(loadedModels) |-> Resolved(loadedModels[k].path)]
    /\ settleOrder = [k \in 1 .. Len(loadedModels) |-> k]
    /\ gltf = NoScene
    /\ resolved = Pending

\* the limiter made for one of the rates `rates`, before its first tick
InitLimiter(rates) ==
    /\ targetFPS \in rates
    /\ lastFrameTime = 0
    /\ currentTime = 0
    /\ requested = 0
    /\ executedAt = << >>

Init ==
    /\ InitWith(Configs, {Loaded(m) : m \in 0 .. MaxModels}, Seeds)
    /\ InitLimiter({TARGET_FPS})

\* mutant: the empty list is not checked for
NoModelsUnchecked(models) == FALSE

\* if (loadedModels.length === 0) { ...; return; }
NoModels(models) == Len(models) = 0

\* initializeScene after the await: no model, or the pool is built
InitializeScene ==
    /\ pc = "loaded"
    /\ IF NoModels(loadedModels)
       THEN /\ pc' = "failed"
            /\ UNCHANGED << assigned, totalObjectsCreated, instancedMeshes,
                            allObjects, created, random, lastFrame, resets, sinceReset >>
       ELSE LET batches == CreateInstancedMeshes(loadedModels, OBJECT_COUNT, 1,
                             [meshes |-> << >>, total |-> 0, assigned |-> << >>])
                pool    == InitializeObjects(config,
                             [meshes |-> batches.meshes, objects |-> << >>,
                              random |-> random], 0)
            IN  /\ pc' = "built"
                /\ assigned' = batches.assigned
                /\ totalObjectsCreated' = batches.total
                /\ instancedMeshes' = pool.meshes
                /\ allObjects' = pool.objects
                /\ random' = pool.random
                /\ created' = [ objects |-> pool.objects,
                                counts  |-> [m \in 1 .. Len(pool.meshes) |->
                                               pool.meshes[m].count],
                                colors  |-> [m \in 1 .. Len(pool.meshes) |->
                                               pool.meshes[m].colorArray] ]
                /\ lastFrame' = EmptyLog(pool.objects, pool.meshes)
                /\ resets' = [k \in 1 .. Len(pool.objects) |-> 0]
                /\ sinceReset' = [k \in 1 .. Len(pool.objects) |-> 0]
    /\ UNCHANGED << config, OBJECT_COUNT, loadedModels, frames, rendered,
                    loaderVars, limiterVars >>

\* renderer.render(scene, camera): the instance buffers as they are drawn
render(meshes) ==
    [m \in 1 .. Len(meshes) |->
       [ count          |-> meshes[m].count,
         instanceMatrix |-> meshes[m].instanceMatrix,
         needsUpdate    |-> meshes[m].needsUpdate ]]

\* mutant: the scene is rendered before the objects are updated
animateRenderFirst(c, st) ==
    LET updated == UpdateAllObjects(c, st)
    IN  [ objects  |-> updated.objects,
          meshes   |-> UpdateAllMeshes(updated.meshes),
          random   |-> updated.random,
          log      |-> updated.log,
          rendered |-> render(st.meshes) ]

\* the body of animate(): the objects are updated, the buffers are flagged,
\* then the scene is rendered; st = [objects, meshes, random, log]
animate(c, st) ==
    LET updated == UpdateAllObjects(c, st)
        meshes  == UpdateAllMeshes(updated.meshes)
    IN  [ objects  |-> updated.objects,
          meshes   |-> meshes,
          random   |-> updated.random,
          log      |-> updated.log,
          rendered |-> render(meshes) ]

\* one executed frame on the pool
Frame ==
    /\ LET st == animate(config,
                   [ objects |-> allObjects, meshes |-> instancedMeshes,
                     random |-> random,
                     log |-> EmptyLog(allObjects, instancedMeshes) ])
       IN  /\ allObjects' = st.objects
           /\ instancedMeshes' = st.meshes
           /\ random' = st.random
           /\ lastFrame' = st.log
           /\ resets' = [k \in 1 .. Len(resets) |-> resets[k] + st.log.reset[k]]
           /\ sinceReset' = [k \in 1 .. Len(sinceReset) |->
                              IF st.log.reset[k] >= 1 THEN 0 ELSE sinceReset[k] + 1]
           /\ rendered' = st.rendered
    /\ pc' = "animating"
    /\ frames' = frames + 1
    /\ UNCHANGED << config, OBJECT_COUNT, loadedModels, assigned,
                    totalObjectsCreated, created, loaderVars >>

\* one executed frame: animate(), called at the end of initializeScene and
\* then by requestAnimationFrame
Animate ==
    /\ pc \in {"built", "animating"}
    /\ frames < MaxFrames
    /\ Frame
    /\ UNCHANGED limiterVars

Next == InitializeScene \/ Animate

Spec == Init /\ [][Next]_vars

\* ------------------------------------------------- discovery and the loads
\* the sequences over S of length at most n
SeqsUpTo(S, n) == UNION { [1 .. k -> S] : k \in 0 .. n }

\* what a models directory may link to: model files, a file whose extension
\* is in capitals, other files and the parent directory
DirectoryHrefs ==
    { Href(1), Href(2), Href(3),
      [stem |-> "model", ext |-> ".GLB"],
      [stem |-> "scene", ext |-> ".gltf"],
      [stem |-> "notes", ext |-> ".txt"],
      [stem |-> "..", ext |-> "/"] }

\* the answers of the server: fetch rejects, the status is not OK, reading
\* the body rejects, parsing it throws, or an index page linking to `hrefs`
Listings(hrefs) ==
    { [kind |-> k, anchors |-> << >>] :
        k \in {"fetch throws", "not ok", "text throws", "parse throws"} } \cup
    { [kind |-> "ok", anchors |-> a] : a \in SeqsUpTo(hrefs, MaxAnchors) }

\* the index pages among them
IndexPages(hrefs) == { l \in Listings(hrefs) : l.kind = "ok" }

\* initializeScene() has called loadAllModels(), which awaits the discovery
InitDiscover(listings) ==
    /\ config = [ShippedConfig EXCEPT !.X_SPREAD = 20]
    /\ OBJECT_COUNT = calculateObjectCount(config)
    /\ pc = "discovering"
    /\ listing \in listings
    /\ modelPaths = << >>
    /\ loads = << >>
    /\ settleOrder = << >>
    /\ gltf = NoScene
    /\ resolved = Pending
    /\ loadedModels = << >>
    /\ random = 0
    /\ assigned = << >>
    /\ totalObjectsCreated = 0
    /\ instancedMeshes = << >>
    /\ allObjects = << >>
    /\ created = [objects |-> << >>, counts |-> << >>, colors |-> << >>]
    /\ frames = 0
    /\ lastFrame = EmptyLog(<< >>, << >>)
    /\ resets = << >>
    /\ sinceReset = << >>
    /\ rendered = << >>
    /\ InitLimiter({TARGET_FPS})

\* loadAllModels from the discovery to the join: the paths are discovered and
\* a load is started for each; a discovery that threw would reject
\* loadAllModels and end initializeScene in its catch
DiscoverModelPaths ==
    /\ pc = "discovering"
    /\ LET found == discoverModelPaths(listing)
       IN  IF found.threw
           THEN /\ pc' = "error"
                /\ UNCHANGED << modelPaths, loads >>
           ELSE /\ pc' = "loading"
                /\ modelPaths' = found.paths
                /\ loads' = [k \in 1 .. Len(found.paths) |-> Pending]
    /\ UNCHANGED << config, OBJECT_COUNT, loadedModels, random, assigned,
                    totalObjectsCreated, instancedMeshes, allObjects, created,
                    frames, lastFrame, resets, sinceReset, rendered, listing,
                    settleOrder, gltf, resolved, limiterVars >>

\* the state that no load touches
LoadFrame ==
    UNCHANGED << config, OBJECT_COUNT, loadedModels, pc, random, assigned,
                 totalObjectsCreated, instancedMeshes, allObjects, created,
                 frames, lastFrame, resets, sinceReset, rendered, listing,
                 modelPaths, gltf, resolved, limiterVars >>

\* the load callback of the i-th path: a file without a mesh resolves with
\* null, a file with meshes with its path and geometry
OnLoad(i) ==
    /\ pc = "loading"
    /\ loads[i] = Pending
    /\ \E geometries \in 0 .. MaxGeometries :
         loads' = [loads EXCEPT ![i] =
                     IF geometries = 0 THEN Null("no mesh")
                     ELSE Resolved(modelPaths[i])]
    /\ settleOrder' = Append(settleOrder, i)
    /\ LoadFrame

\* the error callback of the i-th path
OnError(i) ==
    /\ pc = "loading"
    /\ loads[i] = Pending
    /\ loads' = [loads EXCEPT ![i] = Null("error")]
    /\ settleOrder' = Append(settleOrder, i)
    /\ LoadFrame

\* the join: Promise.all resolves, the results are filtered, loadAllModels
\* returns and initializeScene resumes with the models
AllSettled ==
    /\ pc = "loading"
    /\ PromiseAllResolved(loads)
    /\ loadedModels' = Filter(PromiseAll(loads, settleOrder))
    /\ pc' = "loaded"
    /\ UNCHANGED << config, OBJECT_COUNT, random, assigned, totalObjectsCreated,
                    instancedMeshes, allObjects, created, frames, lastFrame,
                    resets, sinceReset, rendered, loaderVars, limiterVars >>

\* the discovery on its own, for every answer of the server
DiscoverSpec == InitDiscover(Listings(DirectoryHrefs)) /\ [][DiscoverModelPaths]_vars

\* the first frames of a scene that is followed from the discovery on
LoadAnimate == frames < MaxLoadFrames /\ Animate

NextLoad ==
    \/ DiscoverModelPaths
    \/ \E i \in 1 .. Len(loads) : OnLoad(i)
    \/ \E i \in 1 .. Len(loads) : OnError(i)
    \/ AllSettled
    \/ InitializeScene
    \/ LoadAnimate

\* a scene from the discovery on, the server answering with an index page
LoadSpec ==
    InitDiscover(IndexPages({Href(1), Href(2), [stem |-> "notes", ext |-> ".txt"]}))
      /\ [][NextLoad]_vars

\* ------------------------------------------------- the frame-rate limiter
\* Timestamps are in milliseconds.  targetFrameTime = 1000 / targetFPS is kept
\* as a fraction: d >= 1000 / fps is d * fps >= 1000 for fps > 0.

\* mutant: a tick exactly targetFrameTime after the last executed one is skipped
ShouldExecuteStrict(t, last, fps) == (t - last) * fps > 1000

\* mutant: every tick executes
ShouldExecuteAlways(t, last, fps) == TRUE

\* if (currentTime - lastFrameTime >= targetFrameTime)
ShouldExecute(t, last, fps) == (t - last) * fps >= 1000

\* the rates a limiter is made for: uncapped (0 or less), the shipped
\* TARGET_FPS, and rates whose frame time is a whole number of milliseconds
LimiterRates == {-1, 0, TARGET_FPS, 125, 250}

\* a pool is about to be built for a limiter made by
\* createFrameRateLimitedAnimation(animate's body, targetFPS)
InitLimited ==
    /\ InitWith({[ShippedConfig EXCEPT !.Y_SPREAD = 50]}, {Loaded(2)}, {0})
    /\ InitLimiter(LimiterRates)

\* the animate returned for targetFPS > 0, called by requestAnimationFrame
\* with the timestamp t
LimitedAnimate(t) ==
    /\ pc \in {"built", "animating"}
    /\ targetFPS > 0
    /\ requested < MaxTicks
    /\ currentTime' = t
    /\ IF ShouldExecute(t, lastFrameTime, targetFPS)
       THEN /\ Frame
            /\ lastFrameTime' = t
            /\ executedAt' = Append(executedAt, t)
       ELSE UNCHANGED << config, OBJECT_COUNT, loadedModels, pc, random,
                         assigned, totalObjectsCreated, instancedMeshes,
                         allObjects, created, frames, lastFrame, resets, sinceReset,
                         rendered, loaderVars, lastFrameTime, executedAt >>
    /\ requested' = requested + 1
    /\ UNCHANGED targetFPS

\* the animate returned for targetFPS <= 0: every tick executes
UnlimitedAnimate(t) ==
    /\ pc \in {"built", "animating"}
    /\ targetFPS <= 0
    /\ requested < MaxTicks
    /\ currentTime' = t
    /\ Frame
    /\ executedAt' = Append(executedAt, t)
    /\ requested' = requested + 1
    /\ UNCHANGED << targetFPS, lastFrameTime >>

NextLimited ==
    \/ InitializeScene
    \/ \E t \in currentTime + 1 .. currentTime + MaxTickGap : LimitedAnimate(t)
    \/ \E t \in currentTime + 1 .. currentTime + MaxTickGap : UnlimitedAnimate(t)

LimiterSpec == InitLimited /\ [][NextLimited]_vars

\* ------------------------------------------------- one load callback
\* the children of a parsed file: meshes of 1 .. MaxVertices vertices with or
\* without normals and uvs, and nodes that are not meshes
ChildKinds ==
    { [isMesh |-> TRUE, vertices |-> v, hasNormal |-> n, hasUv |-> u] :
        v \in 1 .. MaxVertices, n \in BOOLEAN, u \in BOOLEAN } \cup
    { [isMesh |-> FALSE, vertices |-> 0, hasNormal |-> FALSE, hasUv |-> FALSE] }

\* the child of kind `kind` at place j of its file
Child(j, kind) ==
    [ isMesh   |-> kind.isMesh,
      geometry |-> MeshGeometry(j, kind.vertices, kind.hasNormal, kind.hasUv) ]

\* the parsed files: up to MaxGeometries children, and whether merging their
\* geometries throws
Scenes ==
    { [ children    |-> [j \in 1 .. Len(kinds) |-> Child(j, kinds[j])],
        mergeThrows |-> t ] :
        kinds \in SeqsUpTo(ChildKinds, MaxGeometries), t \in BOOLEAN }

\* the loader has parsed the file of the only discovered path
InitMerge ==
    /\ config = [ShippedConfig EXCEPT !.X_SPREAD = 20]
    /\ OBJECT_COUNT = calculateObjectCount(config)
    /\ pc = "loading"
    /\ listing = [kind |-> "ok", anchors |-> << Href(1) >>]
    /\ modelPaths = << PathOf(Href(1)) >>
    /\ loads = << Pending >>
    /\ settleOrder = << >>
    /\ gltf \in Scenes
    /\ resolved = Pending
    /\ loadedModels = << >>
    /\ random = 0
    /\ assigned = << >>
    /\ totalObjectsCreated = 0
    /\ instancedMeshes = << >>
    /\ allObjects = << >>
    /\ created = [objects |-> << >>, counts |-> << >>, colors |-> << >>]
    /\ frames = 0
    /\ lastFrame = EmptyLog(<< >>, << >>)
    /\ resets = << >>
    /\ sinceReset = << >>
    /\ rendered = << >>
    /\ InitLimiter({TARGET_FPS})

\* the load callback of that path, on the parsed file
OnLoadScene ==
    /\ pc = "loading"
    /\ loads[1] = Pending
    /\ LET result == onLoad(modelPaths[1], gltf)
       IN  /\ resolved' = result
           /\ loads' = [loads EXCEPT ![1] =
                          IF result.kind = "model" THEN Resolved(modelPaths[1])
                          ELSE Null("no mesh")]
    /\ settleOrder' = Append(settleOrder, 1)
    /\ UNCHANGED << config, OBJECT_COUNT, loadedModels, pc, random, assigned,
                    totalObjectsCreated, instancedMeshes, allObjects, created,
                    frames, lastFrame, resets, sinceReset, rendered, listing,
                    modelPaths, gltf, limiterVars >>

MergeSpec == InitMerge /\ [][OnLoadScene]_vars

\* ------------------------------------------------- the object count on its own
\* The modules are being evaluated: OBJECT_COUNT is not initialised yet (-1
\* stands for that, no count is negative), nothing is discovered or loaded.
InitCount ==
    /\ config \in CountConfigs
    /\ OBJECT_COUNT = -1
    /\ pc = "module"
    /\ loadedModels = << >>
    /\ random \in Seeds
    /\ assigned = << >>
    /\ totalObjectsCreated = 0
    /\ instancedMeshes = << >>
    /\ allObjects = << >>
    /\ created = [objects |-> << >>, counts |-> << >>, colors |-> << >>]
    /\ frames = 0
    /\ lastFrame = EmptyLog(<< >>, << >>)
    /\ resets = << >>
    /\ sinceReset = << >>
    /\ rendered = << >>
    /\ listing = [kind |-> "ok", anchors |-> << >>]
    /\ modelPaths = << >>
    /\ loads = << >>
    /\ settleOrder = << >>
    /\ gltf = NoScene
    /\ resolved = Pending
    /\ InitLimiter({TARGET_FPS})

\* const OBJECT_COUNT = calculateObjectCount();
DefineObjectCount ==
    /\ pc = "module"
    /\ OBJECT_COUNT' = calculateObjectCount(config)
    /\ pc' = "discovering"
    /\ UNCHANGED << config, loadedModels, random, assigned, totalObjectsCreated,
                    instancedMeshes, allObjects, created, frames, lastFrame,
                    resets, sinceReset, rendered, loaderVars, limiterVars >>

CountSpec == InitCount /\ [][DefineObjectCount]_vars

\* --------------------------------------------------- the partition on its own
\* The first loop of initializeScene (the batches and their counts), applied
\* to larger object counts than the runs of Spec build a pool for.
InitPartition ==
    /\ InitWith(PartitionConfigs, {Loaded(m) : m \in 1 .. MaxPartitionModels}, {0})
    /\ InitLimiter({TARGET_FPS})

CreateBatches ==
    /\ pc = "loaded"
    /\ Len(loadedModels) # 0
    /\ LET batches == CreateInstancedMeshes(loadedModels, OBJECT_COUNT, 1,
                        [meshes |-> << >>, total |-> 0, assigned |-> << >>])
       IN  /\ assigned' = batches.assigned
           /\ totalObjectsCreated' = batches.total
           /\ instancedMeshes' = batches.meshes
    /\ pc' = "batches"
    /\ UNCHANGED << config, OBJECT_COUNT, loadedModels, random, allObjects,
                    created, frames, lastFrame, resets, sinceReset, rendered,
                    loaderVars, limiterVars >>

PartitionSpec == InitPartition /\ [][CreateBatches]_vars

\* =================================================================== claims
\* the pool exists
Built == pc \in {"built", "animating"}

\* the batches exist
Partitioned == pc \in {"batches", "built", "animating"}

\* a step that executes a frame
FrameStep == frames' = frames + 1

\* Y_OFFSET - Y_SPREAD/2 - 10 and Y_OFFSET + Y_SPREAD/2 of the configuration
Threshold == config.Y_OFFSET * Scale - (config.Y_SPREAD * Scale) \div 2 - 10 * Scale
Top == config.Y_OFFSET * Scale + (config.Y_SPREAD * Scale) \div 2

Objects == 1 .. Len(allObjects)

RECURSIVE Sum(_)
Sum(seq) == IF seq = << >> THEN 0 ELSE Head(seq) + Sum(Tail(seq))

\* C1: in every frame every object is reset exactly once if the y it fell to
\* (its y before the frame minus FALL_SPEED) is strictly below
\* Y_OFFSET - Y_SPREAD/2 - 10, and is not reset if that y is at or above it.
C1_ResetIffBelowThreshold ==
    [][FrameStep =>
         \A k \in Objects :
           LET fell == allObjects[k].position.y - config.FALL_SPEED
           IN  /\ lastFrame'.fell[k] = fell
               /\ fell < Threshold =>
                    /\ lastFrame'.reset[k] = 1
                    /\ resets'[k] = resets[k] + 1
                    /\ allObjects'[k].position.y = Top
               /\ fell >= Threshold =>
                    /\ lastFrame'.reset[k] = 0
                    /\ resets'[k] = resets[k]
                    /\ allObjects'[k].position.y = fell]_vars

\* C1 witness: an object that was recycled before has fallen exactly to the
\* threshold in the last frame and was not reset, while another one was.
C1_Witness ==
    /\ frames > 0
    /\ \E k \in Objects : /\ lastFrame.fell[k] = Threshold
                          /\ lastFrame.reset[k] = 0
                          /\ resets[k] >= 1
                          /\ allObjects[k].position.y = Threshold
    /\ \E k \in DOMAIN resets : resets[k] >= 1

\* C2: an object reset in a frame ends the frame at y = Y_OFFSET + Y_SPREAD/2
\* with x in [-X_SPREAD/2, X_SPREAD/2] and z in [-Z_SPREAD/2, Z_SPREAD/2], both
\* drawn anew from the generator (two draws per reset object).
C2_RecycledToTop ==
    [][FrameStep =>
         /\ \A k \in Objects :
              lastFrame'.reset[k] >= 1 =>
                LET p == allObjects'[k].position
                IN  /\ p.y = config.Y_OFFSET * Scale + (config.Y_SPREAD * Scale) \div 2
                    /\ 2 * p.x >= -(config.X_SPREAD * Scale)
                    /\ 2 * p.x <= config.X_SPREAD * Scale
                    /\ 2 * p.z >= -(config.Z_SPREAD * Scale)
                    /\ 2 * p.z <= config.Z_SPREAD * Scale
         /\ \A d \in 0 .. Len(allObjects) :
              d = Cardinality({k \in Objects : lastFrame'.reset[k] >= 1}) =>
                random' = RandomAt(random, 2 * d)]_vars

\* C2 witness: an object was reset in the last frame and its new x differs
\* from the x it was created with.
C2_Witness ==
    /\ frames > 0
    /\ \E k \in Objects :
         /\ lastFrame.reset[k] = 1
         /\ allObjects[k].position.y = Top
         /\ allObjects[k].position.x # created.objects[k].position.x

\* C3: once the pool is built, every object's scale, rotation speeds,
\* rotation.y, meshIndex and instanceIndex and every instance color equal
\* their values at creation, whatever frames were executed.
C3_CreationValuesKept ==
    Built =>
      /\ Len(allObjects) = Len(created.objects)
      /\ \A k \in Objects :
           LET o == allObjects[k]
               n == created.objects[k]
           IN  /\ o.scale = n.scale
               /\ o.rotationSpeedX = n.rotationSpeedX
               /\ o.rotationSpeedZ = n.rotationSpeedZ
               /\ o.rotation.y = n.rotation.y
               /\ o.meshIndex = n.meshIndex
               /\ o.instanceIndex = n.instanceIndex
      /\ \A m \in 1 .. Len(instancedMeshes) :
           instancedMeshes[m].colorArray = created.colors[m]

\* C3 witness: after some frames an object has been recycled and has rotated.
C3_Witness ==
    /\ pc = "animating"
    /\ \E k \in Objects :
         /\ resets[k] >= 1
         /\ allObjects[k].rotation.x # created.objects[k].rotation.x
         /\ allObjects[k].rotationSpeedX # 0
         /\ allObjects[k].rotation.y # 0

\* C4: an object that a frame does not reset ends it FALL_SPEED lower, with
\* rotation.x grown by rotationSpeedX * ROTATION_MULTIPLIER, rotation.z by
\* rotationSpeedZ * ROTATION_MULTIPLIER and x and z unchanged; the test is on
\* the decreased y, so an object not reset has not fallen below the threshold.
C4_FallWithoutReset ==
    [][FrameStep =>
         \A k \in Objects :
           lastFrame'.reset[k] = 0 =>
             LET o == allObjects[k]
                 n == allObjects'[k]
             IN  /\ n.position.y = o.position.y - config.FALL_SPEED
                 /\ n.position.y >= Threshold
                 /\ n.position.x = o.position.x
                 /\ n.position.z = o.position.z
                 /\ n.rotation.x =
                      o.rotation.x + (o.rotationSpeedX * config.ROTATION_MULTIPLIER) \div Scale
                 /\ n.rotation.z =
                      o.rotation.z + (o.rotationSpeedZ * config.ROTATION_MULTIPLIER) \div Scale]_vars

\* C4 witness: an object above the threshold before the last frame was not
\* reset although the frame took it to the threshold; its two rotation speeds
\* differ.
C4_Witness ==
    /\ frames > 0
    /\ \E k \in Objects :
         /\ lastFrame.reset[k] = 0
         /\ allObjects[k].position.y = Threshold
         /\ allObjects[k].rotationSpeedX # allObjects[k].rotationSpeedZ

\* C5: after pool build the objects and the batch counts are those of the
\* build; every executed frame updates every object exactly once and writes
\* its matrix exactly once, at its own slot of its own batch.
C5_EveryObjectOncePerFrame ==
    Built =>
      /\ Len(allObjects) = Len(created.objects)
      /\ Len(instancedMeshes) = Len(created.counts)
      /\ \A m \in 1 .. Len(instancedMeshes) :
           /\ instancedMeshes[m].count = created.counts[m]
           /\ Len(instancedMeshes[m].instanceMatrix) = created.counts[m]
      /\ frames > 0 =>
           /\ \A k \in Objects : lastFrame.updated[k] = 1
           /\ \A m \in 1 .. Len(instancedMeshes) :
                \A j \in 1 .. instancedMeshes[m].count :
                  lastFrame.written[m][j] = 1
           /\ \A k \in Objects :
                LET o == allObjects[k]
                IN  instancedMeshes[o.meshIndex + 1].instanceMatrix[o.instanceIndex + 1]
                      = [position |-> o.position, rotation |-> o.rotation,
                         scale |-> o.scale]

\* C5 witness: a frame was executed on a pool of several batches and an object
\* was recycled.
C5_Witness ==
    /\ frames > 1
    /\ Len(instancedMeshes) >= 2
    /\ Len(allObjects) >= 3
    /\ \E k \in Objects : lastFrame.reset[k] = 1

\* C6 as stated: after any number of frames every object has been recycled at
\* most once, and one never recycled is at initial_y - K * FALL_SPEED.
C6_AtMostOneWrap ==
    Built =>
      \A k \in Objects :
        /\ resets[k] <= 1
        /\ resets[k] = 0 =>
             allObjects[k].position.y =
               created.objects[k].position.y - frames * config.FALL_SPEED

\* C6 amended: after K frames an object never recycled is at
\* initial_y - K * FALL_SPEED; one recycled is at Y_OFFSET + Y_SPREAD/2 minus
\* FALL_SPEED times the frames since its last reset (fewer than K); and it has
\* been recycled at most once as long as K * FALL_SPEED <= Y_SPREAD + 10.
C6_FallModuloWraps ==
    Built =>
      \A k \in Objects :
        LET y == allObjects[k].position.y
        IN  /\ resets[k] = 0 =>
                 y = created.objects[k].position.y - frames * config.FALL_SPEED
            /\ resets[k] >= 1 =>
                 \E j \in 0 .. frames - 1 : y = Top - j * config.FALL_SPEED
            /\ frames * config.FALL_SPEED <= (config.Y_SPREAD + 10) * Scale =>
                 resets[k] <= 1

\* C6 witness: after several frames one object has been recycled once and has
\* fallen on, and another has not been recycled yet.
C6_Witness ==
    /\ frames >= 3
    /\ frames * config.FALL_SPEED <= (config.Y_SPREAD + 10) * Scale
    /\ \E k \in Objects : resets[k] = 1 /\ allObjects[k].position.y < Top
    /\ \E k \in Objects : resets[k] = 0

\* the number of loaded models and the per-model cap ceil(N / M)
NumModels == Len(loadedModels)
PerModelCap ==
    CHOOSE q \in 0 .. OBJECT_COUNT :
      q * NumModels >= OBJECT_COUNT /\ (q = 0 \/ (q - 1) * NumModels < OBJECT_COUNT)

BatchCounts == [m \in 1 .. Len(instancedMeshes) |-> instancedMeshes[m].count]

\* C7: the object counts of the batches sum to the target count N
\* (= min(N, M * ceil(N/M))), and that many object states are created, each
\* batch owning as many objects as its count.
C7_CountsSumToTarget ==
    Built =>
      /\ Sum(BatchCounts) = OBJECT_COUNT
      /\ OBJECT_COUNT = Min(OBJECT_COUNT, NumModels * PerModelCap)
      /\ totalObjectsCreated = OBJECT_COUNT
      /\ Len(allObjects) = Sum(BatchCounts)
      /\ \A m \in 1 .. Len(instancedMeshes) :
           Cardinality({k \in Objects : allObjects[k].meshIndex = m - 1})
             = instancedMeshes[m].count

\* C7 witness: a pool built for a count that the models do not divide.
C7_Witness ==
    /\ pc = "built"
    /\ NumModels >= 2
    /\ OBJECT_COUNT > NumModels
    /\ OBJECT_COUNT % NumModels # 0
    /\ Len(allObjects) = OBJECT_COUNT

\* C8: the i-th loaded model is assigned min(ceil(N/M), N - alreadyAssigned),
\* which is never negative, never above ceil(N/M) and never above what is
\* left of N; N = 48 and M = 5 give [10, 10, 10, 10, 8].
C8_AssignedCounts ==
    Partitioned =>
      /\ Len(assigned) = NumModels
      /\ \A i \in 1 .. NumModels :
           LET already == Sum(SubSeq(assigned, 1, i - 1))
           IN  /\ assigned[i] = Min(PerModelCap, OBJECT_COUNT - already)
               /\ assigned[i] >= 0
               /\ assigned[i] <= PerModelCap
               /\ assigned[i] <= OBJECT_COUNT - already
      /\ (OBJECT_COUNT = 48 /\ NumModels = 5) => assigned = << 10, 10, 10, 10, 8 >>

\* C8 witness: 48 objects over 5 models.
C8_Witness ==
    /\ pc = "batches"
    /\ OBJECT_COUNT = 48
    /\ assigned = << 10, 10, 10, 10, 8 >>

\* C9 as stated: there are as many batches as loaded models.
C9_OneBatchPerModel == Built => Len(instancedMeshes) = NumModels

\* C9 amended: there is one batch for each loaded model assigned at least one
\* object and none for the others; the j-th batch has the geometry and the
\* count of the j-th loaded model, and there are as many batches as loaded
\* models exactly when the last model is assigned at least one object.
C9_OneBatchPerAssignedModel ==
    Built =>
      /\ Len(instancedMeshes) = Cardinality({i \in 1 .. NumModels : assigned[i] > 0})
      /\ Len(instancedMeshes) <= NumModels
      /\ \A j \in 1 .. Len(instancedMeshes) :
           /\ instancedMeshes[j].geometry = loadedModels[j].geometry
           /\ instancedMeshes[j].count = assigned[j]
      /\ (Len(instancedMeshes) = NumModels) <=> (assigned[NumModels] > 0)

\* C9 witness: three models loaded, the third left without objects.
C9_Witness ==
    /\ pc = "built"
    /\ NumModels = 3
    /\ Len(instancedMeshes) = 2
    /\ assigned[3] = 0

\* C10: every batch has an object count of at least 1 and owns that many
\* objects, also when N < M or N = 0.
C10_NoEmptyBatch ==
    Built =>
      \A m \in 1 .. Len(instancedMeshes) :
        /\ instancedMeshes[m].count >= 1
        /\ Len(instancedMeshes[m].objects) >= 1

\* C10 witness: fewer objects than models, so that some model is skipped.
C10_Witness ==
    /\ pc = "built"
    /\ OBJECT_COUNT > 0
    /\ OBJECT_COUNT < NumModels
    /\ Len(instancedMeshes) = OBJECT_COUNT
    /\ \E i \in 1 .. NumModels : assigned[i] = 0

\* C11 as stated: the counts assigned to any two loaded models differ by at
\* most one.
C11_DifferByAtMostOne ==
    Partitioned =>
      \A i, j \in 1 .. NumModels :
        assigned[i] - assigned[j] <= 1

\* C11 amended: the counts are filled front to back: they never grow along
\* the models, a model assigned less than ceil(N/M) is followed only by models
\* assigned nothing, and so two counts differ by at most ceil(N/M), not by at
\* most one (48 over 5 gives 10 and 8, 4 over 3 gives 2 and 0).
C11_FilledFrontToBack ==
    Partitioned =>
      /\ \A i, j \in 1 .. NumModels :
           /\ i < j => assigned[i] >= assigned[j]
           /\ (i < j /\ assigned[i] < PerModelCap) => assigned[j] = 0
           /\ assigned[i] - assigned[j] <= PerModelCap
      /\ (OBJECT_COUNT > 0 /\ NumModels > 0) => assigned[1] = PerModelCap

\* C11 witness: 4 objects over 3 models, the counts 2, 2 and 0: two models
\* differ by two.
C11_Witness ==
    /\ pc = "batches"
    /\ OBJECT_COUNT = 4
    /\ assigned = << 2, 2, 0 >>

\* C12: once OBJECT_COUNT is defined it is the integer nearest to
\* X_SPREAD * Y_SPREAD * Z_SPREAD * TARGET_DENSITY / 1000000, a tie going up:
\* a function of these four values alone; 200, 600, 100 and 4 give 48.
C12_ObjectCountIsRounded ==
    pc # "module" =>
      LET twice == 2 * config.X_SPREAD * config.Y_SPREAD * config.Z_SPREAD
                     * config.TARGET_DENSITY
      IN  /\ (2 * OBJECT_COUNT - 1) * 1000000 <= twice
          /\ twice < (2 * OBJECT_COUNT + 1) * 1000000
          /\ ( /\ config.X_SPREAD = 200 /\ config.Y_SPREAD = 600
               /\ config.Z_SPREAD = 100 /\ config.TARGET_DENSITY = 4 )
               => OBJECT_COUNT = 48

\* C12 witness: the count was computed from the shipped values and is 48.
C12_Witness ==
    /\ pc = "discovering"
    /\ config = ShippedConfig
    /\ OBJECT_COUNT = 48

\* loadAllModels() has resolved
Joined == pc \in {"loaded", "failed", "built", "animating"}

\* the loads that resolved with a model, and the place of the i-th load
\* among them
Succeeded == {i \in 1 .. Len(loads) : loads[i].kind = "model"}
Rank(i) == Cardinality({j \in Succeeded : j <= i})

\* C13: whatever loads failed (error callback or no mesh), loadAllModels
\* resolves with exactly the loads that succeeded, in the order of their
\* paths, each with its path and a geometry, and with none that failed.
C13_ExactlyTheSuccessful ==
    Joined =>
      /\ Len(loadedModels) = Cardinality(Succeeded)
      /\ \A i \in Succeeded :
           /\ loadedModels[Rank(i)].path = modelPaths[i]
           /\ loadedModels[Rank(i)].geometry = GeometryOf(modelPaths[i])
      /\ \A k \in 1 .. Len(loadedModels) : loadedModels[k].geometry # ""
      /\ \A i \in 1 .. Len(loads) : loads[i] # Pending

\* C13 witness: two loads, the first had no mesh, the second succeeded
\* before it and is the only model returned.
C13_Witness ==
    /\ pc = "loaded"
    /\ Len(loads) = 2
    /\ loads[1] = Null("no mesh")
    /\ loads[2].kind = "model"
    /\ settleOrder = << 2, 1 >>
    /\ loadedModels = << Model(modelPaths[2]) >>

\* C14: when no load yields a model (every load failed or had no mesh, or no
\* path was discovered), loadAllModels returns the empty list, no batch and no
\* object is ever created, and no frame is ever executed or rendered.
C14_NothingWithoutModels ==
    (Joined /\ Succeeded = {}) =>
      /\ loadedModels = << >>
      /\ pc \in {"loaded", "failed"}
      /\ instancedMeshes = << >>
      /\ allObjects = << >>
      /\ totalObjectsCreated = 0
      /\ frames = 0
      /\ rendered = << >>

\* C14 witness: initializeScene has returned after two loads, one that ended
\* in the error callback and one without a mesh.
C14_Witness ==
    /\ pc = "failed"
    /\ Len(loads) = 2
    /\ \E i, j \in 1 .. 2 : loads[i] = Null("error") /\ loads[j] = Null("no mesh")
    /\ loadedModels = << >>

\* C15: a batch or an object exists, or a frame was executed or rendered,
\* only when every load has settled: the pool is built after the join, in
\* every order in which the loads settle.
C15_PoolAfterEveryLoad ==
    ( \/ pc \in {"loaded", "failed", "built", "animating"}
      \/ instancedMeshes # << >>
      \/ allObjects # << >>
      \/ frames > 0
      \/ rendered # << >> )
      => \A i \in 1 .. Len(loads) : loads[i] # Pending

\* C15 witness: frames run on a pool built after two loads, of which the
\* second ended in the error callback after the first had succeeded.
C15_Witness ==
    /\ pc = "animating"
    /\ frames > 0
    /\ Len(loads) = 2
    /\ loads[2] = Null("error")
    /\ settleOrder = << 1, 2 >>
    /\ Len(loadedModels) = 1
    /\ Len(instancedMeshes) = 1

\* C16: what the render call of the last executed frame saw is the pool with
\* every object updated once in that frame and its matrix written, every
\* buffer flagged; the buffers are still as rendered, nothing having touched
\* them since; before the first frame nothing was rendered.
C16_RenderSeesTheAdvancedPool ==
    /\ frames = 0 => rendered = << >>
    /\ (Built /\ frames > 0) =>
         /\ Len(rendered) = Len(instancedMeshes)
         /\ \A m \in 1 .. Len(instancedMeshes) :
              /\ rendered[m].instanceMatrix = instancedMeshes[m].instanceMatrix
              /\ rendered[m].count = instancedMeshes[m].count
              /\ rendered[m].needsUpdate
         /\ \A k \in Objects :
              /\ lastFrame.updated[k] = 1
              /\ rendered[allObjects[k].meshIndex + 1]
                    .instanceMatrix[allObjects[k].instanceIndex + 1]
                   = Matrix(allObjects[k])

\* C16 witness: a frame that recycled an object of one batch and only moved
\* an object of another has been rendered.
C16_Witness ==
    /\ frames > 1
    /\ Len(rendered) >= 2
    /\ \E j, k \in Objects :
         /\ allObjects[j].meshIndex # allObjects[k].meshIndex
         /\ lastFrame.reset[j] = 1
         /\ lastFrame.reset[k] = 0

\* a tick of a limiter made for a positive rate
LimitedTick == targetFPS > 0 /\ requested' = requested + 1

\* the timestamp of the last executed unit, 0 before the first
LastExecuted == IF executedAt = << >> THEN 0 ELSE executedAt[Len(executedAt)]

\* C17: for targetFPS > 0 the tick with timestamp t executes the frame if and
\* only if t minus the timestamp of the last executed unit (0 before the
\* first) is at least 1000 / targetFPS; an executed tick becomes the last
\* executed one, so two consecutive executed units are at least
\* 1000 / targetFPS apart.
C17_ExecutesIffFrameTimeElapsed ==
    [][LimitedTick =>
         /\ (frames' = frames + 1)
               <=> ((currentTime' - LastExecuted) * targetFPS >= 1000)
         /\ (frames' = frames + 1) =>
               /\ executedAt' = Append(executedAt, currentTime')
               /\ lastFrameTime' = currentTime'
               /\ executedAt # << >> =>
                    (currentTime' - executedAt[Len(executedAt)]) * targetFPS >= 1000
         /\ (frames' # frames + 1) => frames' = frames /\ executedAt' = executedAt]_vars

\* C17 witness: at 125 frames per second two units were executed exactly 8 ms
\* apart, and a tick in between was skipped.
C17_Witness ==
    /\ targetFPS = 125
    /\ Len(executedAt) = 2
    /\ executedAt[2] - executedAt[1] = 8
    /\ requested > 2
    /\ currentTime = executedAt[2]

\* C18: a tick of a limiter made for a positive rate that comes less than
\* 1000 / targetFPS after the last executed unit changes nothing: not
\* lastFrameTime, not an object, not a buffer, not the generator, not what was
\* rendered; it only requests the next tick.
C18_SkippedTickMutatesNothing ==
    [][(LimitedTick /\ (currentTime' - LastExecuted) * targetFPS < 1000) =>
         /\ lastFrameTime' = lastFrameTime
         /\ allObjects' = allObjects
         /\ instancedMeshes' = instancedMeshes
         /\ rendered' = rendered
         /\ random' = random
         /\ frames' = frames
         /\ lastFrame' = lastFrame
         /\ resets' = resets
         /\ executedAt' = executedAt
         /\ pc' = pc
         /\ targetFPS' = targetFPS
         /\ requested' = requested + 1]_vars

\* C18 witness: the last tick came after an executed unit and was skipped.
C18_Witness ==
    /\ targetFPS > 0
    /\ executedAt # << >>
    /\ currentTime > LastExecuted
    /\ (currentTime - LastExecuted) * targetFPS < 1000
    /\ lastFrameTime = LastExecuted
    /\ frames = Len(executedAt)

\* C19: discovery never throws, and when the fetch throws, the status is not
\* OK, or reading or parsing the body throws, it returns exactly
\* MODEL_CONFIG.FALLBACK_MODELS, the eight shipped paths, which are then loaded.
C19_FallbackOnAnyFailure ==
    /\ pc # "error"
    /\ (pc # "discovering" /\ listing.kind # "ok") =>
         /\ modelPaths = FALLBACK_MODELS
         /\ Len(modelPaths) = 8
         /\ modelPaths[1] = [dir |-> "models/", stem |-> "dd", ext |-> ".glb"]
         /\ Len(loads) = 8

\* C19 witness: the status was OK but reading the body threw, and the
\* fallback paths are being loaded.
C19_Witness ==
    /\ pc = "loading"
    /\ listing.kind = "text throws"
    /\ modelPaths = FALLBACK_MODELS
    /\ \A i \in 1 .. 8 : loads[i] = Pending

\* C20: the list that discovery returns holds no path twice, whatever the
\* directory listing links to, so that no model file is loaded twice and no
\* two batches are built from the same file.
C20_NoDuplicatePaths ==
    /\ \A i, j \in 1 .. Len(modelPaths) : i # j => modelPaths[i] # modelPaths[j]
    /\ \A i, j \in 1 .. Len(loadedModels) :
         i # j => loadedModels[i].path # loadedModels[j].path
    /\ \A i, j \in 1 .. Len(instancedMeshes) :
         i # j => instancedMeshes[i].geometry # instancedMeshes[j].geometry

\* the state C20 excludes: an index page linked the same file twice, both
\* loads succeeded and two batches of the pool share its geometry
C20_SameFileBatchedTwice ==
    /\ pc = "built"
    /\ \E i, j \in 1 .. Len(listing.anchors) :
         i # j /\ listing.anchors[i] = listing.anchors[j]
    /\ Len(modelPaths) = 2
    /\ modelPaths[1] = modelPaths[2]
    /\ Len(instancedMeshes) = 2
    /\ instancedMeshes[1].geometry = instancedMeshes[2].geometry

\* the geometries that the load callback collected from the parsed file
Inputs == MeshGeometries(gltf)

\* the vertices of a geometry: three numbers of its position array each
Vertices(g) == Len(g.position) \div 3

\* the callback merged the geometries of the file
Merged == resolved.kind = "model" /\ Len(Inputs) >= 2 /\ ~gltf.mergeThrows

\* C21: a merge that does not throw yields the inputs' position arrays one
\* after the other, unchanged and in input order: the k-th input's numbers
\* stand right after those of the inputs before it, and the merged vertex
\* count is the sum of the inputs' (3 and 4 give 7); when every input has
\* normals and uvs these are laid out the same way, one per merged vertex.
C21_PositionsConcatenated ==
    Merged =>
      LET g == resolved.geometry
      IN  /\ Vertices(g) = Sum([k \in 1 .. Len(Inputs) |-> Vertices(Inputs[k])])
          /\ \A k \in 1 .. Len(Inputs) :
               LET before == Sum([j \in 1 .. k - 1 |-> Len(Inputs[j].position)])
               IN  \A i \in 1 .. Len(Inputs[k].position) :
                     g.position[before + i] = Inputs[k].position[i]
          /\ (\A k \in 1 .. Len(Inputs) : Inputs[k].hasNormal /\ Inputs[k].hasUv) =>
               /\ g.hasNormal /\ g.hasUv /\ ~g.computedNormals
               /\ Len(g.normal) = 3 * Vertices(g)
               /\ Len(g.uv) = 2 * Vertices(g)
               /\ \A k \in 1 .. Len(Inputs) :
                    LET before == Sum([j \in 1 .. k - 1 |-> Vertices(Inputs[j])])
                    IN  /\ \A i \in 1 .. Len(Inputs[k].normal) :
                             g.normal[3 * before + i] = Inputs[k].normal[i]
                        /\ \A i \in 1 .. Len(Inputs[k].uv) :
                             g.uv[2 * before + i] = Inputs[k].uv[i]
          /\ ( /\ Len(Inputs) = 2
               /\ Vertices(Inputs[1]) = 3 /\ Vertices(Inputs[2]) = 4 )
               => Vertices(g) = 7

\* C21 witness: a file with a mesh of 3 vertices and a mesh of 4, both with
\* normals and uvs, was merged into a geometry of 7 vertices.
C21_Witness ==
    /\ Merged
    /\ Len(Inputs) = 2
    /\ Vertices(Inputs[1]) = 3 /\ Inputs[1].hasNormal /\ Inputs[1].hasUv
    /\ Vertices(Inputs[2]) = 4 /\ Inputs[2].hasNormal /\ Inputs[2].hasUv
    /\ Vertices(resolved.geometry) = 7
    /\ Len(resolved.geometry.uv) = 14

\* C22: when some but not all inputs of a merge have normals, the merged
\* normals are recomputed and none is taken from an input; in every case the
\* merged geometry has one normal per vertex.
C22_PartialNormalsRecomputed ==
    Merged =>
      LET g == resolved.geometry
      IN  /\ ( /\ \E k \in 1 .. Len(Inputs) : Inputs[k].hasNormal
               /\ \E k \in 1 .. Len(Inputs) : ~Inputs[k].hasNormal )
               => g.computedNormals
          /\ g.hasNormal
          /\ Len(g.normal) = 3 * Vertices(g)

\* the state C22 excludes: of two merged meshes only the second had normals,
\* and the merged normal array is that mesh's alone, shorter than the
\* positions call for
C22_PartialNormalsKept ==
    /\ Merged
    /\ Len(Inputs) = 2
    /\ ~Inputs[1].hasNormal
    /\ Inputs[2].hasNormal
    /\ resolved.geometry.normal = Inputs[2].normal
    /\ ~resolved.geometry.computedNormals
    /\ Len(resolved.geometry.normal) < Len(resolved.geometry.position)

\* the load callback of the parsed file has returned
CallbackDone == pc = "loading" /\ gltf # NoScene /\ loads[1] # Pending

\* C23: when the merge of a file with several meshes throws, the promise
\* still resolves, with an entry that is not null: the path and the geometry
\* of the first mesh as it is in the file.
C23_MergeFailureFallsBack ==
    (CallbackDone /\ Len(Inputs) >= 2 /\ gltf.mergeThrows) =>
      /\ resolved.kind = "model"
      /\ resolved.path = modelPaths[1]
      /\ resolved.geometry = Inputs[1]
      /\ loads[1].kind = "model"

\* C23 witness: the merge of two meshes threw and the promise resolved with
\* the first, which differs from the second.
C23_Witness ==
    /\ CallbackDone
    /\ gltf.mergeThrows
    /\ Len(Inputs) = 2
    /\ Inputs[1] # Inputs[2]
    /\ resolved.kind = "model"
    /\ resolved.geometry = Inputs[1]

\* C24: every entry that a load callback resolves with carries a normal
\* attribute, on each path: one mesh with or without normals, a merge, and
\* the first mesh taken after a merge that threw.
C24_EveryGeometryHasNormals ==
    (CallbackDone /\ resolved.kind = "model") => resolved.geometry.hasNormal

\* the state C24 excludes: the merge threw, the first mesh of the file has no
\* normals and is the geometry of the entry
C24_FallbackWithoutNormals ==
    /\ CallbackDone
    /\ gltf.mergeThrows
    /\ Len(Inputs) = 2
    /\ ~Inputs[1].hasNormal
    /\ resolved.kind = "model"
    /\ resolved.geometry = Inputs[1]
    /\ ~resolved.geometry.hasNormal
    /\ loads[1] = Resolved(modelPaths[1])

\* C25: once the pool is built and after every frame, no two objects share
\* a (meshIndex, instanceIndex) pair, every meshIndex names a batch and every
\* instanceIndex a slot 0 .. count-1 of it, every slot of every batch is owned
\* by exactly one object, which the batch lists; the models left without a
\* batch are the last ones, so batch k has the geometry of loaded model k.
C25_SlotsOwnedOnce ==
    Built =>
      /\ \A j, k \in Objects :
           j # k => << allObjects[j].meshIndex, allObjects[j].instanceIndex >>
                      # << allObjects[k].meshIndex, allObjects[k].instanceIndex >>
      /\ \A k \in Objects :
           /\ allObjects[k].meshIndex \in 0 .. Len(instancedMeshes) - 1
           /\ allObjects[k].instanceIndex
                \in 0 .. instancedMeshes[allObjects[k].meshIndex + 1].count - 1
      /\ \A m \in 1 .. Len(instancedMeshes) :
           /\ \A i \in 0 .. instancedMeshes[m].count - 1 :
                /\ Cardinality({k \in Objects :
                                  /\ allObjects[k].meshIndex = m - 1
                                  /\ allObjects[k].instanceIndex = i}) = 1
                /\ allObjects[instancedMeshes[m].objects[i + 1]].meshIndex = m - 1
                /\ allObjects[instancedMeshes[m].objects[i + 1]].instanceIndex = i
           /\ instancedMeshes[m].geometry = loadedModels[m].geometry
      /\ \A i \in Len(instancedMeshes) + 1 .. NumModels : assigned[i] = 0

\* C25 witness: frames have run on a pool of two batches with two slots each,
\* built from three models of which the last was skipped.
C25_Witness ==
    /\ pc = "animating"
    /\ frames > 1
    /\ NumModels = 3
    /\ Len(instancedMeshes) = 2
    /\ instancedMeshes[1].count = 2
    /\ instancedMeshes[2].count = 2
    /\ \E k \in Objects : resets[k] >= 1

\* C26: at pool build and after every frame every object is inside the box:
\* Y_OFFSET - Y_SPREAD/2 - 10 <= y <= Y_OFFSET + Y_SPREAD/2,
\* -X_SPREAD/2 <= x <= X_SPREAD/2 and -Z_SPREAD/2 <= z <= Z_SPREAD/2.
C26_InsideTheBox ==
    Built =>
      \A k \in Objects :
        LET p == allObjects[k].position
        IN  /\ 2 * p.y >= 2 * config.Y_OFFSET * Scale - config.Y_SPREAD * Scale - 20 * Scale
            /\ 2 * p.y <= 2 * config.Y_OFFSET * Scale + config.Y_SPREAD * Scale
            /\ 2 * p.x >= -(config.X_SPREAD * Scale)
            /\ 2 * p.x <= config.X_SPREAD * Scale
            /\ 2 * p.z >= -(config.Z_SPREAD * Scale)
            /\ 2 * p.z <= config.Z_SPREAD * Scale

\* C26 witness: after some frames one object lies on the floor of the box,
\* another on its ceiling, and one on the wall x = -X_SPREAD/2.
C26_Witness ==
    /\ frames > 0
    /\ \E k \in Objects : allObjects[k].position.y = Threshold
    /\ \E k \in Objects : allObjects[k].position.y = Top
    /\ \E k \in Objects : 2 * allObjects[k].position.x = -(config.X_SPREAD * Scale)

\* the frames an object takes from the top to its recycling:
\* floor((Y_SPREAD + 10) / FALL_SPEED) + 1
FramesToRecycle == ((config.Y_SPREAD + 10) * Scale) \div config.FALL_SPEED + 1

\* C27: in every executed frame every object either is recycled to the top
\* or falls lower than it was, and it is recycled at the latest in the
\* floor((Y_SPREAD + 10) / FALL_SPEED) + 1-th frame since it was created or
\* last recycled: no object stays below the threshold or stops falling.
C27_RecycledWithinBound ==
    [][FrameStep =>
         \A k \in Objects :
           \/ /\ lastFrame'.reset[k] = 1
              /\ sinceReset'[k] = 0
              /\ sinceReset[k] + 1 <= FramesToRecycle
              /\ allObjects'[k].position.y = Top
           \/ /\ lastFrame'.reset[k] = 0
              /\ sinceReset'[k] = sinceReset[k] + 1
              /\ sinceReset'[k] < FramesToRecycle
              /\ allObjects'[k].position.y < allObjects[k].position.y
              /\ allObjects'[k].position.y >= Threshold]_vars

\* C27 witness: an object recycled before has now fallen for as many frames as
\* the bound allows without being recycled, and another was recycled twice.
C27_Witness ==
    /\ \E k \in Objects : /\ resets[k] >= 1
                          /\ sinceReset[k] = FramesToRecycle - 1
    /\ \E k \in Objects : resets[k] >= 2

\* C28: as long as one load has not settled, loadAllModels has not resolved,
\* no batch or object exists and no frame has run, whatever the other loads
\* did; and a step that leaves a load pending leaves all that as it is.
C28_PendingLoadBlocksTheScene ==
    [][(\E i \in 1 .. Len(loads') : loads'[i] = Pending) =>
         /\ pc' = "loading"
         /\ loadedModels' = << >>
         /\ instancedMeshes' = << >>
         /\ allObjects' = << >>
         /\ frames' = 0
         /\ rendered' = << >>]_vars

\* C28 witness: of two loads the second has succeeded and the first is
\* pending; nothing is built.
C28_Witness ==
    /\ pc = "loading"
    /\ Len(loads) = 2
    /\ loads[1] = Pending
    /\ loads[2].kind = "model"
    /\ settleOrder = << 2 >>
    /\ instancedMeshes = << >>

\* the k-th load, in discovery order, among those that resolved with a model
Successful(k) == CHOOSE i \in Succeeded : Rank(i) = k

\* C29: the models that loadAllModels returns are fixed by the paths and by
\* what each load resolved with, not by the order in which the loads
\* resolved: the k-th is the k-th successful path in discovery order, and
\* the k-th batch of the pool is built from it.
C29_DiscoveryOrderKept ==
    /\ Joined =>
         loadedModels = [k \in 1 .. Cardinality(Succeeded) |->
                           Model(modelPaths[Successful(k)])]
    /\ Built =>
         /\ Len(assigned) = Cardinality(Succeeded)
         /\ \A m \in 1 .. Len(instancedMeshes) :
              instancedMeshes[m].geometry = GeometryOf(modelPaths[Successful(m)])

\* C29 witness: two different files, the second loaded first; the pool is
\* built with the first file's batch first.
C29_Witness ==
    /\ pc = "built"
    /\ Len(loads) = 2
    /\ settleOrder = << 2, 1 >>
    /\ modelPaths[1] # modelPaths[2]
    /\ loadedModels = << Model(modelPaths[1]), Model(modelPaths[2]) >>
    /\ instancedMeshes[1].geometry = GeometryOf(modelPaths[1])

\* C30: when the server answers OK with an index page in which no link ends
\* in .glb, the discovery returns the empty list, not the fallback list: no
\* load is started, loadAllModels returns no model and no batch, object or
\* frame ever exists.
C30_EmptyIndexIsNotAFailure ==
    (listing.kind = "ok"
       /\ \A k \in 1 .. Len(listing.anchors) : listing.anchors[k].ext # ".glb") =>
      /\ modelPaths = << >>
      /\ modelPaths # FALLBACK_MODELS
      /\ loads = << >>
      /\ loadedModels = << >>
      /\ pc \in {"discovering", "loading", "loaded", "failed"}
      /\ instancedMeshes = << >>
      /\ allObjects = << >>
      /\ frames = 0

\* C30 witness: the index page linked only to a text file; initializeScene
\* has returned without a model.
C30_Witness ==
    /\ pc = "failed"
    /\ listing.kind = "ok"
    /\ Len(listing.anchors) >= 1
    /\ \A k \in 1 .. Len(listing.anchors) : listing.anchors[k].ext = ".txt"
    /\ modelPaths = << >>
    /\ loadedModels = << >>

====
